---- MODULE Spec2Model ----
(***************************************************************************)
(* Model of the PDF summarization pipeline:                                *)
(*   - image_summarizer.py: make_llm_call_with_retry_multimodal and        *)
(*     image_to_text_summarizer (retry/backoff, per-image batch);          *)
(*   - text_table_summarizer.py: generate_table_text_summaries;            *)
(*   - image_processor.py: convert_images_to_base64, find_closest_image,   *)
(*     generate_caption_image_page_number.                                 *)
(*                                                                         *)
(* Python strings are modelled as sequences of string fragments: the       *)
(* empty string is << >>, an f-string is the tuple of its literal and      *)
(* interpolated fragments, and `sub in s` is containment of a contiguous   *)
(* run of fragments.                                                       *)
(***************************************************************************)
EXTENDS Integers, Sequences, FiniteSets, TLC

\* ------------------------------------------------------------------ bounds
\* Largest number of items in one batch (texts, tables, image bundles).
MaxItems == 2
\* Largest max_retries argument tried when the retry helper is called directly.
MaxRetriesArg == 6
\* Default of the max_retries parameter (the only value the image batch uses).
DefaultMaxRetries == 5
\* config.PAGES_TO_BE_EXTRACTED, the value main.py passes to categorize_elements.
PagesToBeExtracted == 100

VARIABLES
    op,                      \* which entry point runs: "text_table", "image", "call", ...
    pc,                      \* position inside the running function
    texts,                   \* argument of generate_table_text_summaries
    tables,                  \* argument of generate_table_text_summaries
    caption_image_dict,      \* argument of image_to_text_summarizer, in dict order
    i,                       \* index of the item the running loop is at (1-based)
    text_summaries,
    table_summaries,
    image_summary_list,
    text_exception_counter,
    table_exception_counter,
    image_exception_counter,
    max_retries,             \* argument of make_llm_call_with_retry_multimodal
    retries,                 \* its local counter
    ret,                     \* its return value when called directly (op = "call")
    sleeps,                  \* history: the time.sleep arguments made for the current item
    calls,                   \* history: generate_content invocations for the current item
    lastOutcome,             \* history: outcome of its latest generate_content
    log,                     \* history: per class, per item: invocations and last outcome
    raw_pdf_elements,        \* the parser's element stream
    image_base64_dict,       \* result of convert_images_to_base64: <<key, payload>> pairs
    closest,                 \* history: per caption, what find_closest_image returned
    pages_to_be_extracted    \* argument of categorize_elements

sumVars == << op, pc, texts, tables, caption_image_dict, i, text_summaries,
              table_summaries, image_summary_list, text_exception_counter,
              table_exception_counter, image_exception_counter, max_retries,
              retries, ret, sleeps, calls, lastOutcome, log >>

vars == << sumVars, raw_pdf_elements, image_base64_dict, closest,
           pages_to_be_extracted >>

\* ----------------------------------------------------------------- strings
\* `sub in s` for fragment sequences.
Contains(s, sub) ==
    \E k \in 1..(Len(s) - Len(sub) + 1) : SubSeq(s, k, k + Len(sub) - 1) = sub

Max(a, b) == IF a >= b THEN a ELSE b

RECURSIVE Pow2(_)
Pow2(n) == IF n = 0 THEN 1 ELSE 2 * Pow2(n - 1)

\* ------------------------------------------------------- the model boundary
\* Texts generate_content(...).text can return for a prompt: an ordinary
\* summary, the empty string, and summaries that themselves quote the
\* wording of the failure sentinels.
ModelTexts(prompt) ==
    { << "Summary of ", prompt >>,
      << >>,
      << "Error summarizing ", "image", " was reported in ", prompt >> }

\* Seconds carried by a ResourceExhausted error that has a retry_delay.
RetryDelaySeconds == {3, 40}

\* Outcomes of one generate_content(...) + .text: a text, a ResourceExhausted
\* (429) with or without retry_delay, or any other exception.
Outcomes(prompt) ==
    { [kind |-> "ok", text |-> t, has_delay |-> FALSE, seconds |-> 0] :
        t \in ModelTexts(prompt) }
    \cup { [kind |-> "rate", text |-> << >>, has_delay |-> FALSE, seconds |-> 0] }
    \cup { [kind |-> "rate", text |-> << >>, has_delay |-> TRUE, seconds |-> s] :
        s \in RetryDelaySeconds }
    \cup { [kind |-> "error", text |-> << >>, has_delay |-> FALSE, seconds |-> 0] }

\* ------------------------------------------- make_llm_call_with_retry_multimodal
ElementKey(image_key) == "page of (" \o image_key \o ")"

ErrorSentinel(element_type, element_key) ==
    << "Error summarizing ", element_type, " ", element_key, "." >>

FailedSentinel(element_type, element_key) ==
    << "Failed to summarize ", element_type, " ", element_key,
       " after multiple retries." >>

\* Mutant of WaitTime: the server's delay replaces the backoff whenever present.
WaitTimeHintWins(r, o) ==
    IF o.has_delay THEN o.seconds ELSE Pow2(r)

\* wait_time after the counter was incremented to `r` by the error `o`.
WaitTime(r, o) ==
    IF o.has_delay THEN Max(Pow2(r), o.seconds) ELSE Pow2(r)

\* Mutant of LoopRuns: off by one.
LoopRunsOnceMore(r, m) == r <= m

\* while retries < max_retries
LoopRuns(r, m) == r < m

\* Mutant of IsRateLimit: every exception is retried.
IsRateLimitOrAny(o) == o.kind \in {"rate", "error"}

\* except exceptions.ResourceExhausted
IsRateLimit(o) == o.kind = "rate"

\* The invocation lines 26-30 and the history it leaves.
Invoked(o) ==
    /\ calls' = calls + 1
    /\ lastOutcome' = o.kind

\* ------------------------------------------------ image_to_text_summarizer
ImageKeys == [j \in 1..(MaxItems + 2) |-> "img-" \o ToString(j)]

\* What the loop body does with the helper's return value (lines 105-108).
CountsAsFailure(summary) ==
    \/ Contains(summary, << "Error summarizing ", "image" >>)
    \/ Contains(summary, << "Failed to summarize ", "image" >>)

ProcessingSentinel(image_key) ==
    << "Error processing image with key ", image_key, "." >>

\* base64.b64decode(image_info["base64_data"]) returns (line 75); it raises
\* on a payload that is not base64.
Decodable(base64_data) == base64_data # "not-base64"

\* except Exception (line 110) around the body of the image loop.
ImageExceptCatches(kind) == kind \in {"build"}

LogItem(cls, idx, n, kind) ==
    [log EXCEPT ![cls][idx] = [calls |-> n, last |-> kind]]

\* `return x` of the helper after `n` invocations, the last ending `kind`:
\* to the direct caller, or into the image loop (lines 105-108).
Return(summary, n, kind) ==
    IF op = "call"
    THEN /\ ret' = summary
         /\ pc' = "done"
         /\ UNCHANGED << i, image_summary_list, image_exception_counter, log >>
    ELSE /\ image_exception_counter' =
                IF CountsAsFailure(summary)
                THEN image_exception_counter + 1 ELSE image_exception_counter
         /\ image_summary_list' = Append(image_summary_list, summary)
         /\ log' = LogItem("image", i, n, kind)
         /\ i' = i + 1
         /\ pc' = "image"
         /\ UNCHANGED ret

CurrentKey ==
    IF op = "call" THEN ElementKey(ImageKeys[1])
    ELSE ElementKey(caption_image_dict[i].image_key)

CurrentPrompt ==
    IF op = "call" THEN ImageKeys[1] ELSE caption_image_dict[i].image_key

bundleVars == << raw_pdf_elements, image_base64_dict, closest,
                pages_to_be_extracted >>
sumInputs == << op, texts, tables, caption_image_dict, max_retries, bundleVars >>
textTableState == << text_summaries, table_summaries, text_exception_counter,
                     table_exception_counter >>

\* Lines 26-30: the call succeeds and its text is returned.
AttemptSuccess ==
    /\ pc = "attempt"
    /\ LoopRuns(retries, max_retries)
    /\ \E o \in Outcomes(CurrentPrompt) :
         /\ o.kind = "ok"
         /\ Invoked(o)
         /\ Return(o.text, calls + 1, o.kind)
    /\ UNCHANGED << sumInputs, textTableState, retries, sleeps >>

\* Lines 31-42: ResourceExhausted; count, compute the wait, sleep, loop.
AttemptRateLimited ==
    /\ pc = "attempt"
    /\ LoopRuns(retries, max_retries)
    /\ \E o \in Outcomes(CurrentPrompt) :
         /\ o.kind # "ok"
         /\ IsRateLimit(o)
         /\ Invoked(o)
         /\ retries' = retries + 1
         /\ sleeps' = Append(sleeps, WaitTime(retries + 1, o))
    /\ UNCHANGED << sumInputs, textTableState, pc, i, ret, image_summary_list,
                    image_exception_counter, log >>

\* Lines 43-46: any other exception; return the error sentinel at once.
AttemptError ==
    /\ pc = "attempt"
    /\ LoopRuns(retries, max_retries)
    /\ \E o \in Outcomes(CurrentPrompt) :
         /\ o.kind # "ok"
         /\ ~IsRateLimit(o)
         /\ Invoked(o)
         /\ Return(ErrorSentinel("image", CurrentKey), calls + 1, o.kind)
    /\ UNCHANGED << sumInputs, textTableState, retries, sleeps >>

\* Lines 48-49: the while condition fails.
RetriesExceeded ==
    /\ pc = "attempt"
    /\ ~LoopRuns(retries, max_retries)
    /\ Return(FailedSentinel("image", CurrentKey), calls, lastOutcome)
    /\ UNCHANGED << sumInputs, textTableState, retries, sleeps, calls, lastOutcome >>

\* Lines 73-103: next image; build the prompt and enter the helper, or, when
\* building raises (b64decode of a malformed payload), lines 110-113.
ImageItem ==
    /\ op = "image"
    /\ pc = "image"
    /\ i <= Len(caption_image_dict)
    /\ IF Decodable(caption_image_dict[i].base64_data)
       THEN /\ pc' = "attempt"
            /\ retries' = 0
            /\ sleeps' = << >>
            /\ calls' = 0
            /\ lastOutcome' = "none"
            /\ UNCHANGED << i, image_summary_list, image_exception_counter, log >>
       ELSE IF ImageExceptCatches("build")
       THEN /\ image_exception_counter' = image_exception_counter + 1
            /\ image_summary_list' =
                   Append(image_summary_list,
                          ProcessingSentinel(caption_image_dict[i].image_key))
            /\ log' = LogItem("image", i, 0, "build")
            /\ i' = i + 1
            /\ sleeps' = << >>
            /\ calls' = 0
            /\ lastOutcome' = "none"
            /\ UNCHANGED << pc, retries >>
       ELSE /\ pc' = "raised"
            /\ UNCHANGED << i, image_summary_list, image_exception_counter, log,
                            retries, sleeps, calls, lastOutcome >>
    /\ UNCHANGED << sumInputs, textTableState, ret >>

\* Lines 115-118: the loop is over; return image_summary_list.
ImageReturn ==
    /\ op = "image"
    /\ pc = "image"
    /\ i > Len(caption_image_dict)
    /\ pc' = "done"
    /\ UNCHANGED << sumInputs, textTableState, i, ret, image_summary_list,
                    image_exception_counter, log, retries, sleeps, calls,
                    lastOutcome >>

\* ------------------------------------------ generate_table_text_summaries
\* f"Error summarizing text: {text[:100]}..." (the items are shorter than 100
\* characters, so the slice is the whole item).
TextSentinel(text) == << "Error summarizing ", "text", ": ", text, "..." >>
TableSentinel(table) == << "Error summarizing ", "table", ": ", table, "..." >>

\* Mutant of TextExceptCatches: rate-limit errors escape the handler.
TextExceptCatchesSome(o) == o.kind \in {"error"}

\* except Exception (lines 66 and 84): every failure of the call is caught.
TextExceptCatches(o) == o.kind \in {"rate", "error"}

\* Mutant of OnFailure: the handler counts the failure and appends nothing.
OnFailureDrops(summaries, sentinel) == summaries

\* Lines 67-70 / 85-88: what the handler leaves in the output list.
OnFailure(summaries, sentinel) == Append(summaries, sentinel)

imageState == << image_summary_list, image_exception_counter >>
retryState == << max_retries, retries, ret, sleeps, calls, lastOutcome >>

\* Lines 57-71: one iteration of the text loop; a single generate_content.
TextItem ==
    /\ op = "text_table"
    /\ pc = "text"
    /\ i <= Len(texts)
    /\ \E o \in Outcomes(texts[i]) :
         IF o.kind = "ok"
         THEN /\ text_summaries' = Append(text_summaries, o.text)
              /\ log' = LogItem("text", i, 1, o.kind)
              /\ i' = i + 1
              /\ UNCHANGED << pc, text_exception_counter >>
         ELSE IF TextExceptCatches(o)
         THEN /\ text_exception_counter' = text_exception_counter + 1
              /\ text_summaries' = OnFailure(text_summaries, TextSentinel(texts[i]))
              /\ log' = LogItem("text", i, 1, o.kind)
              /\ i' = i + 1
              /\ UNCHANGED pc
         ELSE /\ pc' = "raised"
              /\ log' = LogItem("text", i, 1, o.kind)
              /\ UNCHANGED << i, text_summaries, text_exception_counter >>
    /\ UNCHANGED << sumInputs, table_summaries,
                    table_exception_counter, imageState, retryState >>

\* Line 73: the text loop is over, the table loop starts.
TextLoopEnd ==
    /\ op = "text_table"
    /\ pc = "text"
    /\ i > Len(texts)
    /\ pc' = "table"
    /\ i' = 1
    /\ UNCHANGED << sumInputs, textTableState,
                    imageState, retryState, log >>

\* Lines 75-89: one iteration of the table loop.
TableItem ==
    /\ op = "text_table"
    /\ pc = "table"
    /\ i <= Len(tables)
    /\ \E o \in Outcomes(tables[i]) :
         IF o.kind = "ok"
         THEN /\ table_summaries' = Append(table_summaries, o.text)
              /\ log' = LogItem("table", i, 1, o.kind)
              /\ i' = i + 1
              /\ UNCHANGED << pc, table_exception_counter >>
         ELSE IF TextExceptCatches(o)
         THEN /\ table_exception_counter' = table_exception_counter + 1
              /\ table_summaries' = OnFailure(table_summaries, TableSentinel(tables[i]))
              /\ log' = LogItem("table", i, 1, o.kind)
              /\ i' = i + 1
              /\ UNCHANGED pc
         ELSE /\ pc' = "raised"
              /\ log' = LogItem("table", i, 1, o.kind)
              /\ UNCHANGED << i, table_summaries, table_exception_counter >>
    /\ UNCHANGED << sumInputs, text_summaries,
                    text_exception_counter, imageState, retryState >>

\* Lines 91-95: return text_summaries, table_summaries.
TextTableReturn ==
    /\ op = "text_table"
    /\ pc = "table"
    /\ i > Len(tables)
    /\ pc' = "done"
    /\ UNCHANGED << sumInputs, i, textTableState,
                    imageState, retryState, log >>

\* ---------------------------------------------------------- image_processor
\* Largest number of elements in the parser's stream.
MaxElements == 3

\* Bounding boxes the parser reports: the four corner points of a polygon.
\* Centers: box 1 (1,1), box 2 (11,11), box 3 (21,1).
\* Images are at boxes 1 and 3, captions at boxes 1 and 2: a caption at box 2
\* is equally far from both image boxes, a caption at box 1 is not.
ImageBoxes == {1, 3}
CaptionBoxes == {1, 2}
Points(box) ==
    CASE box = 1 -> << <<0, 0>>, <<0, 2>>, <<2, 2>>, <<2, 0>> >>
      [] box = 2 -> << <<10, 10>>, <<10, 12>>, <<12, 12>>, <<12, 10>> >>
      [] box = 3 -> << <<20, 0>>, <<20, 2>>, <<22, 2>>, <<22, 0>> >>

PageNumbers == {1, 2}

\* metadata.coordinates.points: a polygon in a Python container ("list" or
\* "tuple" of points), or no coordinates at all.
NoCoords == [container |-> "none", box |-> 0]
Coords(container, box) == [container |-> container, box |-> box]

\* tuple(map(tuple, points))
TupleOfTuples(c) == [container |-> "tuple", box |-> c.box]

\* isinstance(x, tuple)
IsTuple(c) == c.container = "tuple"

\* isinstance(x, list) and len(x) > 0 (lines 80 and 100)
IsNonEmptyList(c) == c.container = "list" /\ Len(Points(c.box)) > 0

\* convert_images_to_base64, lines 24-49, over the elements from index k on.
\* dict[key] = value on a dict kept as its <<key, value>> pairs in insertion order
DictSet(d, key, value) ==
    IF \E k \in 1..Len(d) : d[k][1] = key
    THEN [k \in 1..Len(d) |-> IF d[k][1] = key THEN << key, value >> ELSE d[k]]
    ELSE Append(d, << key, value >>)

DictHas(d, key) == \E k \in 1..Len(d) : d[k][1] = key

DictGet(d, key, default) ==
    IF DictHas(d, key)
    THEN (CHOOSE e \in {d[k] : k \in 1..Len(d)} : e[1] = key)[2]
    ELSE default

RECURSIVE ConvertFrom(_, _, _)
ConvertFrom(elements, k, dict) ==
    IF k > Len(elements) THEN dict
    ELSE LET element == elements[k]
         IN  IF /\ element.category = "Image"
                /\ element.has_file
                /\ element.coords # NoCoords
             THEN ConvertFrom(elements, k + 1,
                     DictSet(dict,
                             << element.page_number, TupleOfTuples(element.coords) >>,
                             element.payload))
             ELSE ConvertFrom(elements, k + 1, dict)

convert_images_to_base64(elements) == ConvertFrom(elements, 1, << >>)

\* float('inf') (line 74): larger than every distance of the model.
Infinity == 1000000

Min(S) == CHOOSE x \in S : \A y \in S : x <= y
MaxOf(S) == CHOOSE x \in S : \A y \in S : x >= y

\* Lines 81-84 / 101-104: the center of the bounding box, kept doubled
\* (min + max) so that it stays an integer.
Center2(points) ==
    LET xs == {points[k][1] : k \in 1..Len(points)}
        ys == {points[k][2] : k \in 1..Len(points)}
    IN  << Min(xs) + MaxOf(xs), Min(ys) + MaxOf(ys) >>

\* Lines 113-115: the Euclidean distance between the centers, kept as the
\* square of the doubled distance (the square root is monotone, so `<`
\* between distances is `<` between these).
Distance2(c1, c2) ==
    LET h == IF c1[1] >= c2[1] THEN c1[1] - c2[1] ELSE c2[1] - c1[1]
        v == IF c1[2] >= c2[2] THEN c1[2] - c2[2] ELSE c2[2] - c1[2]
    IN  h * h + v * v

\* Mutant of SamePage: the page filter is lost.
SamePageAny(img_page, caption_page) == TRUE

\* img_data.get('page_number') == caption_page_number (line 96)
SamePage(img_page, caption_page) == img_page = caption_page

\* if distance < min_distance (line 121)
Closer(distance, min_distance) == distance < min_distance

\* Lines 95-129 from candidate k on: the running minimum and its index.
RECURSIVE ClosestFrom(_, _, _, _, _)
ClosestFrom(caption, images, k, min_distance, closest_image) ==
    IF k > Len(images) THEN closest_image
    ELSE LET img_data == images[k]
         IN  IF /\ SamePage(img_data.page_number, caption.page_number)
                /\ img_data.coordinates # NoCoords
                /\ IsNonEmptyList(img_data.coordinates)
             THEN LET distance ==
                          Distance2(Center2(Points(caption.coords.box)),
                                    Center2(Points(img_data.coordinates.box)))
                  IN  IF Closer(distance, min_distance)
                      THEN ClosestFrom(caption, images, k + 1, distance, k)
                      ELSE ClosestFrom(caption, images, k + 1, min_distance,
                                       closest_image)
             ELSE ClosestFrom(caption, images, k + 1, min_distance, closest_image)

\* find_closest_image(caption, images): the index in `images` of the image
\* returned, 0 for None.
find_closest_image(caption, images) ==
    IF caption.coords = NoCoords THEN 0
    ELSE IF ~IsNonEmptyList(caption.coords) THEN 0
    ELSE ClosestFrom(caption, images, 1, Infinity, 0)

SelectCategory(elements, category) ==
    SelectSeq(elements, LAMBDA el : el.category = category)

\* Lines 175-182: the dictionaries handed to find_closest_image.
ImagesForClosestSearch(images) ==
    [k \in 1..Len(images) |->
        [image_path |-> images[k].payload,
         page_number |-> images[k].page_number,
         coordinates |-> images[k].coords]]

\* Mutant of CoordsForKey: the coordinates are used for the key as given.
CoordsForKeyAsGiven(c) == c

\* Lines 191-197 and 227-233: coordinates made hashable for the key.
CoordsForKey(c) == IF ~IsTuple(c) THEN TupleOfTuples(c) ELSE c

BundleSet(d, key, value) ==
    IF \E k \in 1..Len(d) : d[k].image_key = key
    THEN [k \in 1..Len(d) |-> IF d[k].image_key = key THEN value ELSE d[k]]
    ELSE Append(d, value)

BundleHas(d, key) == \E k \in 1..Len(d) : d[k].image_key = key

\* Mutant of PayloadExists: a captioned bundle is made whether or not the key
\* has a payload.
PayloadExistsAlways(base64_dict, image_key) == TRUE

\* if image_key in image_base64_dict (line 204)
PayloadExists(base64_dict, image_key) == DictHas(base64_dict, image_key)

\* Lines 170-218 from caption k on.
RECURSIVE CaptionsFrom(_, _, _, _, _)
CaptionsFrom(captions, images, base64_dict, k, dict) ==
    IF k > Len(captions) THEN dict
    ELSE LET search == ImagesForClosestSearch(images)
             found == find_closest_image(captions[k], search)
         IN  IF found = 0
             THEN CaptionsFrom(captions, images, base64_dict, k + 1, dict)
             ELSE LET image_key == << search[found].page_number,
                                      CoordsForKey(search[found].coordinates) >>
                  IN  IF PayloadExists(base64_dict, image_key)
                      THEN CaptionsFrom(captions, images, base64_dict, k + 1,
                               BundleSet(dict, image_key,
                                   [image_key |-> image_key,
                                    base64_data |-> DictGet(base64_dict, image_key, ""),
                                    caption_text |-> captions[k].text,
                                    page_number |-> search[found].page_number]))
                      ELSE CaptionsFrom(captions, images, base64_dict, k + 1, dict)

\* Mutant of OrphanMissing: captioned images are added again as orphans.
OrphanMissingAlways(dict, key) == TRUE

\* if img_key_for_dict not in caption_image_dict (line 240)
OrphanMissing(dict, key) == ~BundleHas(dict, key)

\* Lines 221-248 from image k on.
RECURSIVE OrphansFrom(_, _, _, _)
OrphansFrom(images, base64_dict, k, dict) ==
    IF k > Len(images) THEN dict
    ELSE LET img_element == images[k]
         IN  IF img_element.coords = NoCoords
             THEN OrphansFrom(images, base64_dict, k + 1, dict)
             ELSE LET key == << img_element.page_number,
                                CoordsForKey(img_element.coords) >>
                  IN  IF OrphanMissing(dict, key)
                      THEN OrphansFrom(images, base64_dict, k + 1,
                               BundleSet(dict, key,
                                   [image_key |-> key,
                                    base64_data |-> DictGet(base64_dict, key, ""),
                                    caption_text |-> "",
                                    page_number |-> img_element.page_number]))
                      ELSE OrphansFrom(images, base64_dict, k + 1, dict)

generate_caption_image_page_number(elements, base64_dict) ==
    LET images == SelectCategory(elements, "Image")
        captions == SelectCategory(elements, "FigureCaption")
    IN  OrphansFrom(images, base64_dict, 1,
            CaptionsFrom(captions, images, base64_dict, 1, << >>))

\* What find_closest_image returned for each caption, in caption order.
ClosestPerCaption(elements) ==
    LET images == SelectCategory(elements, "Image")
        captions == SelectCategory(elements, "FigureCaption")
    IN  [k \in 1..Len(captions) |->
            find_closest_image(captions[k], ImagesForClosestSearch(images))]

sumState == << texts, tables, i, text_summaries, table_summaries,
               image_summary_list, text_exception_counter,
               table_exception_counter, image_exception_counter, max_retries,
               retries, ret, sleeps, calls, lastOutcome, log >>

\* main.py step 3.1: raw_image_list, image_data_dict = convert_images_to_base64(...)
ConvertImages ==
    /\ op = "bundles"
    /\ pc = "convert"
    /\ image_base64_dict' = convert_images_to_base64(raw_pdf_elements)
    /\ pc' = "bundle"
    /\ UNCHANGED << op, raw_pdf_elements, caption_image_dict, closest, sumState,
                    pages_to_be_extracted >>

\* main.py step 3.2: generate_caption_image_page_number(raw_pdf_elements, image_data_dict)
GenerateBundles ==
    /\ op = "bundles"
    /\ pc = "bundle"
    /\ caption_image_dict' =
           generate_caption_image_page_number(raw_pdf_elements, image_base64_dict)
    /\ closest' = ClosestPerCaption(raw_pdf_elements)
    /\ pc' = "done"
    /\ UNCHANGED << op, raw_pdf_elements, image_base64_dict, sumState,
                    pages_to_be_extracted >>

\* ------------------------------------------------------ element_categorizer
\* Texts of the elements, str(element), and their lengths len(...).
ElementTexts == {"", "a", "t199", "t200"}
StrLen(text) ==
    CASE text = "" -> 0
      [] text = "a" -> 1
      [] text = "t199" -> 199
      [] text = "t200" -> 200

\* The threshold of line 52.
TableContextLimit == 200

\* Mutant of PageSkipped: the page bound is taken as exclusive.
PageSkippedFromBound(page_number, max_page) ==
    max_page > 0 /\ page_number >= max_page

\* Line 31: pages_to_be_extracted > 0 and page_number > pages_to_be_extracted
\* (every element of the stream has a page_number).
PageSkipped(page_number, max_page) ==
    max_page > 0 /\ page_number > max_page

\* Lines 38 and 49: the categories appended to texts.
IsTextLike(category) ==
    category \in {"CompositeElement", "NarrativeText", "ListItem", "UncategorizedText"}

\* Lines 45-50: the text of the element at index - 1 of the stream, if text-like.
PrevElementText(elements, idx) ==
    IF idx > 1 /\ IsTextLike(elements[idx - 1].category)
    THEN elements[idx - 1].text
    ELSE ""

\* Mutant of HasShortContext: the threshold is taken as inclusive.
HasShortContextInclusive(prev_element_text) ==
    prev_element_text # "" /\ StrLen(prev_element_text) <= TableContextLimit

\* Line 52: if prev_element_text and len(prev_element_text) < 200
HasShortContext(prev_element_text) ==
    prev_element_text # "" /\ StrLen(prev_element_text) < TableContextLimit

\* Lines 52-57: f"{prev_element_text}\n\n{table_html}" or table_html.
TableWithSummaryAppended(prev_element_text, table_html) ==
    IF HasShortContext(prev_element_text)
    THEN << prev_element_text, "\n\n", table_html >>
    ELSE << table_html >>

catOther == << caption_image_dict, text_summaries, table_summaries,
               image_summary_list, text_exception_counter,
               table_exception_counter, image_exception_counter, max_retries,
               retries, ret, sleeps, calls, lastOutcome, log,
               image_base64_dict, closest >>

\* Lines 27-59: one iteration of the loop over range(len(raw_pdf_elements));
\* `i` is the loop index, counted from 1 as sequences are.
CategorizeElement ==
    /\ op = "categorize"
    /\ pc = "loop"
    /\ i <= Len(raw_pdf_elements)
    /\ LET element == raw_pdf_elements[i]
       IN  IF PageSkipped(element.page_number, pages_to_be_extracted)
           THEN UNCHANGED << texts, tables >>
           ELSE IF IsTextLike(element.category)
           THEN /\ texts' = Append(texts, element.text)
                /\ UNCHANGED tables
           ELSE IF element.category = "Table"
           THEN /\ tables' =
                       Append(tables,
                              TableWithSummaryAppended(
                                  PrevElementText(raw_pdf_elements, i),
                                  element.text_as_html))
                /\ UNCHANGED texts
           ELSE UNCHANGED << texts, tables >>
    /\ i' = i + 1
    /\ UNCHANGED << op, pc, raw_pdf_elements, pages_to_be_extracted, catOther >>

\* Lines 61-64: the loop is over; return texts, tables_html.
CategorizeReturn ==
    /\ op = "categorize"
    /\ pc = "loop"
    /\ i > Len(raw_pdf_elements)
    /\ pc' = "done"
    /\ UNCHANGED << op, i, texts, tables, raw_pdf_elements,
                    pages_to_be_extracted, catOther >>

\* ------------------------------------------------------------ specification
TextItems == [j \in 1..(MaxItems + 2) |-> "text-" \o ToString(j)]
TableItems == [j \in 1..(MaxItems + 2) |-> "table-" \o ToString(j)]

NoItem == [calls |-> 0, last |-> "none"]

EmptyLog(nt, ntb, ni) ==
    [cls \in {"text", "table", "image"} |->
        IF cls = "text" THEN [j \in 1..nt |-> NoItem]
        ELSE IF cls = "table" THEN [j \in 1..ntb |-> NoItem]
        ELSE [j \in 1..ni |-> NoItem]]

SumOutputsEmpty ==
    /\ i = 1
    /\ text_summaries = << >>
    /\ table_summaries = << >>
    /\ image_summary_list = << >>
    /\ text_exception_counter = 0
    /\ table_exception_counter = 0
    /\ image_exception_counter = 0
    /\ retries = 0
    /\ ret = << >>
    /\ sleeps = << >>
    /\ calls = 0
    /\ lastOutcome = "none"
    /\ raw_pdf_elements = << >>
    /\ image_base64_dict = << >>
    /\ closest = << >>
    /\ pages_to_be_extracted = PagesToBeExtracted

\* generate_table_text_summaries(texts, tables)
InitTextTable ==
    /\ op = "text_table"
    /\ pc = "text"
    /\ \E nt \in 0..MaxItems, ntb \in 0..MaxItems :
         /\ texts = [j \in 1..nt |-> TextItems[j]]
         /\ tables = [j \in 1..ntb |-> TableItems[j]]
         /\ log = EmptyLog(nt, ntb, 0)
    /\ caption_image_dict = << >>
    /\ max_retries = DefaultMaxRetries
    /\ SumOutputsEmpty

\* image_to_text_summarizer(caption_image_dict)
InitImage ==
    /\ op = "image"
    /\ pc = "image"
    /\ texts = << >>
    /\ tables = << >>
    /\ \E ni \in 0..MaxItems :
         /\ \E b64 \in [1..ni -> {"b64-data", "not-base64"}] :
              caption_image_dict =
                  [j \in 1..ni |->
                      [image_key |-> ImageKeys[j], base64_data |-> b64[j],
                       caption_text |-> "", page_number |-> 1]]
         /\ log = EmptyLog(0, 0, ni)
    /\ max_retries = DefaultMaxRetries
    /\ SumOutputsEmpty

\* make_llm_call_with_retry_multimodal(..., max_retries = m) called directly
InitCall ==
    /\ op = "call"
    /\ pc = "attempt"
    /\ texts = << >>
    /\ tables = << >>
    /\ caption_image_dict = << >>
    /\ log = EmptyLog(0, 0, 0)
    /\ max_retries \in 1..MaxRetriesArg
    /\ SumOutputsEmpty

Init == InitTextTable \/ InitImage \/ InitCall

\* The elements the parser yields to the image stage: images and figure
\* captions, all with polygons in the container type `container`.
ElementShapes(container) ==
    { [category |-> "Image", page_number |-> p, coords |-> c, has_file |-> f] :
        p \in PageNumbers, f \in BOOLEAN,
        c \in {Coords(container, b) : b \in ImageBoxes} }
    \cup { [category |-> "Image", page_number |-> p, coords |-> NoCoords,
            has_file |-> TRUE] : p \in PageNumbers }
    \cup { [category |-> "FigureCaption", page_number |-> p, coords |-> c,
            has_file |-> FALSE] :
        p \in PageNumbers,
        c \in {Coords(container, b) : b \in CaptionBoxes} \cup {NoCoords} }

\* main.py steps 3.1 and 3.2 on a parsed document
InitBundles ==
    /\ op = "bundles"
    /\ pc = "convert"
    /\ \E n \in 0..MaxElements, container \in {"list", "tuple"} :
         \E shape \in [1..n -> ElementShapes(container)] :
            raw_pdf_elements =
                [j \in 1..n |->
                    [category |-> shape[j].category,
                     page_number |-> shape[j].page_number,
                     coords |-> shape[j].coords,
                     has_file |-> shape[j].has_file,
                     payload |-> "b64-" \o ToString(j),
                     text |-> "caption-" \o ToString(j)]]
    /\ image_base64_dict = << >>
    /\ closest = << >>
    /\ pages_to_be_extracted = PagesToBeExtracted
    /\ caption_image_dict = << >>
    /\ texts = << >>
    /\ tables = << >>
    /\ log = EmptyLog(0, 0, 0)
    /\ max_retries = DefaultMaxRetries
    /\ i = 1
    /\ text_summaries = << >>
    /\ table_summaries = << >>
    /\ image_summary_list = << >>
    /\ text_exception_counter = 0
    /\ table_exception_counter = 0
    /\ image_exception_counter = 0
    /\ retries = 0
    /\ ret = << >>
    /\ sleeps = << >>
    /\ calls = 0
    /\ lastOutcome = "none"

NextBundles == ConvertImages \/ GenerateBundles

\* Elements whose polygons come in both forms, lists of lists and tuples of
\* tuples, within one document.
MixedShapes ==
    { [category |-> "Image", page_number |-> p, coords |-> Coords(container, b),
       has_file |-> f] :
        p \in PageNumbers, f \in BOOLEAN, container \in {"list", "tuple"},
        b \in ImageBoxes }
    \cup { [category |-> "FigureCaption", page_number |-> p,
            coords |-> Coords("list", b), has_file |-> FALSE] :
        p \in PageNumbers, b \in CaptionBoxes }

\* main.py steps 3.1 and 3.2 on a document with polygons of both forms
InitKeys ==
    /\ op = "bundles"
    /\ pc = "convert"
    /\ \E n \in 0..MaxElements :
         \E shape \in [1..n -> MixedShapes] :
            raw_pdf_elements =
                [j \in 1..n |->
                    [category |-> shape[j].category,
                     page_number |-> shape[j].page_number,
                     coords |-> shape[j].coords,
                     has_file |-> shape[j].has_file,
                     payload |-> "b64-" \o ToString(j),
                     text |-> "caption-" \o ToString(j)]]
    /\ image_base64_dict = << >>
    /\ closest = << >>
    /\ pages_to_be_extracted = PagesToBeExtracted
    /\ caption_image_dict = << >>
    /\ texts = << >>
    /\ tables = << >>
    /\ log = EmptyLog(0, 0, 0)
    /\ max_retries = DefaultMaxRetries
    /\ i = 1
    /\ text_summaries = << >>
    /\ table_summaries = << >>
    /\ image_summary_list = << >>
    /\ text_exception_counter = 0
    /\ table_exception_counter = 0
    /\ image_exception_counter = 0
    /\ retries = 0
    /\ ret = << >>
    /\ sleeps = << >>
    /\ calls = 0
    /\ lastOutcome = "none"

SpecKeys == InitKeys /\ [][NextBundles]_vars

\* The elements the parser yields to the categorizer.
CategorizerShapes ==
    { [category |-> "NarrativeText", page_number |-> p, text |-> t] :
        p \in PageNumbers, t \in ElementTexts }
    \cup { [category |-> "Table", page_number |-> p, text |-> "a"] :
        p \in PageNumbers }
    \cup { [category |-> "Title", page_number |-> 1, text |-> "a"] }

\* categorize_elements(raw_pdf_elements, pages_to_be_extracted)
InitCategorize ==
    /\ op = "categorize"
    /\ pages_to_be_extracted \in {-1, 0, 1}
    /\ \E n \in 0..MaxElements :
         /\ pc = "loop"
         /\ \E shape \in [1..n -> CategorizerShapes] :
              raw_pdf_elements =
                  [j \in 1..n |->
                      [category |-> shape[j].category,
                       page_number |-> shape[j].page_number,
                       text |-> shape[j].text,
                       text_as_html |-> "<table " \o ToString(j) \o ">"]]
    /\ image_base64_dict = << >>
    /\ closest = << >>
    /\ caption_image_dict = << >>
    /\ texts = << >>
    /\ tables = << >>
    /\ log = EmptyLog(0, 0, 0)
    /\ max_retries = DefaultMaxRetries
    /\ i = 1
    /\ text_summaries = << >>
    /\ table_summaries = << >>
    /\ image_summary_list = << >>
    /\ text_exception_counter = 0
    /\ table_exception_counter = 0
    /\ image_exception_counter = 0
    /\ retries = 0
    /\ ret = << >>
    /\ sleeps = << >>
    /\ calls = 0
    /\ lastOutcome = "none"

NextCategorize == CategorizeElement \/ CategorizeReturn

SpecCategorize == InitCategorize /\ [][NextCategorize]_vars

SpecBundles == InitBundles /\ [][NextBundles]_vars

Next ==
    \/ AttemptSuccess
    \/ AttemptRateLimited
    \/ AttemptError
    \/ RetriesExceeded
    \/ ImageItem
    \/ ImageReturn
    \/ TextItem
    \/ TextLoopEnd
    \/ TableItem
    \/ TextTableReturn

Spec == Init /\ [][Next]_vars

\* ------------------------------------------------------------------ claims
Classes == {"text", "table", "image"}

Items(cls) ==
    IF cls = "text" THEN texts
    ELSE IF cls = "table" THEN tables
    ELSE [j \in 1..Len(caption_image_dict) |-> caption_image_dict[j].image_key]

Output(cls) ==
    IF cls = "text" THEN text_summaries
    ELSE IF cls = "table" THEN table_summaries
    ELSE image_summary_list

\* The slot the item `j` of class `cls` is owed, given how its last model
\* invocation ended (or that its prompt could not be built).
SlotIsOutcomeOf(cls, j, slot) ==
    LET item == Items(cls)[j]
        last == log[cls][j].last
    IN  CASE last = "ok" -> slot \in ModelTexts(item)
          [] last = "build" -> slot = ProcessingSentinel(item)
          [] last \in {"rate", "error"} /\ cls = "text" -> slot = TextSentinel(item)
          [] last \in {"rate", "error"} /\ cls = "table" -> slot = TableSentinel(item)
          [] last = "error" /\ cls = "image" ->
                 slot = ErrorSentinel("image", ElementKey(item))
          [] last = "rate" /\ cls = "image" ->
                 slot = FailedSentinel("image", ElementKey(item))
          [] OTHER -> FALSE

BatchOver(cls) ==
    IF cls = "image" THEN op = "image" /\ pc = "done"
    ELSE IF cls = "table" THEN op = "text_table" /\ pc = "done"
    ELSE op = "text_table" /\ pc \in {"table", "done"}

\* C1: every batch returns exactly as many results as it had items, and the
\* result at position j is the outcome (summary or sentinel) of item j, for
\* any mix of successes, rate-limit failures and other failures.
C1_CardinalityAndOrder ==
    \A cls \in Classes :
        /\ \A j \in 1..Len(Output(cls)) :
              /\ j <= Len(Items(cls))
              /\ SlotIsOutcomeOf(cls, j, Output(cls)[j])
        /\ BatchOver(cls) => Len(Output(cls)) = Len(Items(cls))

C1_Witness ==
    \/ /\ op = "image" /\ pc = "done" /\ Len(caption_image_dict) >= 2
       /\ log["image"][1].last = "rate" /\ log["image"][2].last = "ok"
       /\ image_summary_list[2] # << >>
    \/ /\ op = "text_table" /\ pc = "done" /\ Len(texts) >= 2 /\ Len(tables) >= 1
       /\ log["text"][1].last = "error" /\ log["text"][2].last = "ok"
       /\ log["table"][1].last = "rate"

\* C2 (as claimed): in every content class a rate-limited item is retried up
\* to max_attempts times, and a rate-limit failure reaches the item's slot
\* only as the exhausted-retries sentinel, never after a single attempt.
C2_RateLimitAlwaysRetried ==
    \A cls \in Classes :
        \A j \in 1..Len(Output(cls)) :
            log[cls][j].last = "rate" =>
                /\ log[cls][j].calls = max_retries
                /\ Contains(Output(cls)[j], << "Failed to summarize ", cls >>)

\* C3: the retry helper invokes the model at most max_retries times; when
\* every attempt is rate-limited it returns the exhausted-retries sentinel,
\* which is not the error sentinel; it always returns, never raises.
C3_BoundedAttempts ==
    op \in {"call", "image"} =>
        /\ calls <= max_retries
        /\ pc # "raised"
        /\ (pc = "attempt" => ENABLED Next)
        /\ (op = "call" /\ pc = "done" /\ lastOutcome = "rate") =>
              /\ calls = max_retries
              /\ ret = FailedSentinel("image", CurrentKey)
              /\ ret # ErrorSentinel("image", CurrentKey)
              /\ ~Contains(ret, << "Error summarizing " >>)

C3_Witness ==
    /\ op = "call" /\ pc = "done" /\ max_retries = 3
    /\ calls = 3 /\ lastOutcome = "rate"

\* C4 (as claimed): within one call the delays slept before successive
\* retries are non-decreasing, whatever delays the server suggested.
C4_DelaysNonDecreasing ==
    \A k \in 1..(Len(sleeps) - 1) : sleeps[k] <= sleeps[k + 1]

\* C4 (amended): the k-th delay is 2^k or a larger server-suggested delay, and
\* a delay is smaller than the one before it only if the earlier one was a
\* server-suggested delay above its exponential floor; with no such
\* suggestion the delays are non-decreasing.
C4_DelaysAboveExponentialFloor ==
    /\ \A k \in 1..Len(sleeps) :
          /\ sleeps[k] >= Pow2(k)
          /\ sleeps[k] \in {Pow2(k)} \cup RetryDelaySeconds
    /\ \A k \in 1..(Len(sleeps) - 1) :
          sleeps[k] = Pow2(k) => sleeps[k] <= sleeps[k + 1]
    /\ (\A k \in 1..Len(sleeps) : sleeps[k] = Pow2(k)) => C4_DelaysNonDecreasing

C4_Witness ==
    /\ Len(sleeps) >= 3
    /\ sleeps[1] = 3 /\ sleeps[2] = 4 /\ sleeps[3] = 40

\* C5: a failure other than rate limiting ends the call at once: no further
\* attempt, no sleep after it, and the error sentinel is the result, also
\* when earlier attempts of the same call were rate-limited.
C5_PermanentFailureIsTerminal ==
    (op \in {"call", "image"} /\ lastOutcome = "error") =>
        /\ pc # "attempt"
        /\ Len(sleeps) = calls - 1
        /\ retries = calls - 1
        /\ op = "call" => ret = ErrorSentinel("image", CurrentKey)
        /\ op = "image" =>
              /\ Len(image_summary_list) = i - 1
              /\ image_summary_list[i - 1] =
                     ErrorSentinel("image",
                                   ElementKey(caption_image_dict[i - 1].image_key))

C5_Witness ==
    /\ lastOutcome = "error" /\ calls = 3 /\ Len(sleeps) = 2
    /\ op = "call" /\ pc = "done"

Failed(cls, j) == log[cls][j].last \in {"rate", "error", "build"}

FunctionOver == pc \in {"done", "raised"}

\* C6 (as claimed): after a failed item every later item of the batch is
\* still attempted against the model at least once.
C6_LaterItemsAllAttempted ==
    FunctionOver =>
        \A cls \in Classes :
            \A j \in 1..Len(Items(cls)) :
                (\E k \in 1..(j - 1) : Failed(cls, k)) => log[cls][j].calls >= 1

\* C6 (amended): a failed item never stops the batch: the batch runs to its
\* last item, every item gets its slot, and every later item is attempted
\* against the model at least once unless its own prompt cannot be built.
C6_BulkheadIsolation ==
    /\ pc # "raised"
    /\ FunctionOver =>
        \A cls \in Classes :
            /\ Len(Output(cls)) = Len(Items(cls))
            /\ \A j \in 1..Len(Items(cls)) :
                  (\E k \in 1..(j - 1) : Failed(cls, k)) =>
                      \/ log[cls][j].calls >= 1
                      \/ log[cls][j].last = "build"

C6_Witness ==
    \/ /\ op = "image" /\ pc = "done" /\ Len(caption_image_dict) >= 2
       /\ log["image"][1].last = "build" /\ log["image"][2].calls >= 1
    \/ /\ op = "text_table" /\ pc = "done" /\ Len(texts) >= 2
       /\ log["text"][1].last = "rate" /\ log["text"][2].calls >= 1

\* C7 (as claimed): no slot of any summary output is empty, whatever text
\* the model returns for a successful call.
C7_NoEmptySlot ==
    \A cls \in Classes :
        \A j \in 1..Len(Output(cls)) : Output(cls)[j] # << >>

\* ------------------------------------------------------ image-stage claims
Images == SelectCategory(raw_pdf_elements, "Image")
Captions == SelectCategory(raw_pdf_elements, "FigureCaption")

BundlesDone == op = "bundles" /\ pc = "done"

HasGeometry(el) == el.coords # NoCoords

\* The GeometryKey of an element: its page and its polygon as a tuple of tuples.
GeometryKey(el) == << el.page_number, TupleOfTuples(el.coords) >>

BundlesOf(el) ==
    { k \in 1..Len(caption_image_dict) :
        caption_image_dict[k].image_key = GeometryKey(el) }

\* A caption was matched to an image with this key and the key has a payload.
ClaimedByCaption(key) ==
    \E c \in 1..Len(Captions) :
        /\ closest[c] # 0
        /\ GeometryKey(Images[closest[c]]) = key
        /\ DictHas(image_base64_dict, key)

\* C8 (as claimed): for any element stream every Image element appears in
\* exactly one bundle, and there are at most as many bundles as images.
C8_EveryImageInOneBundle ==
    BundlesDone =>
        /\ \A k \in 1..Len(Images) : Cardinality(BundlesOf(Images[k])) = 1
        /\ Len(caption_image_dict) <= Len(Images)

\* C8 (amended): every Image element that has geometry metadata appears in
\* exactly one bundle, captioned if a caption claimed its key and orphaned
\* (empty caption) otherwise, never both; an Image element without geometry
\* is skipped; every bundle belongs to an image, and there are at most as
\* many bundles as images.
C8_BundleCompleteness ==
    BundlesDone =>
        /\ \A k \in 1..Len(Images) :
              IF HasGeometry(Images[k])
              THEN /\ Cardinality(BundlesOf(Images[k])) = 1
                   /\ \A b \in BundlesOf(Images[k]) :
                         (caption_image_dict[b].caption_text # "")
                             <=> ClaimedByCaption(GeometryKey(Images[k]))
              ELSE BundlesOf(Images[k]) = {}
        /\ \A b \in 1..Len(caption_image_dict) :
              \E k \in 1..Len(Images) :
                  HasGeometry(Images[k]) /\ b \in BundlesOf(Images[k])
        /\ Len(caption_image_dict) <= Len(Images)

C8_Witness ==
    /\ BundlesDone
    /\ Len(caption_image_dict) = 2
    /\ caption_image_dict[1].caption_text # ""
    /\ caption_image_dict[2].caption_text = ""

\* C9: find_closest_image never returns an image of another page than the
\* caption's; with no image on the caption's page it returns None, even when
\* an image of another page is nearer.
C9_PageIsolation ==
    BundlesDone =>
        \A c \in 1..Len(Captions) :
            /\ closest[c] # 0 =>
                  Images[closest[c]].page_number = Captions[c].page_number
            /\ (\A k \in 1..Len(Images) :
                    Images[k].page_number # Captions[c].page_number)
                  => closest[c] = 0

CenterDistance(a, b) ==
    Distance2(Center2(Points(a.coords.box)), Center2(Points(b.coords.box)))

C9_Witness ==
    /\ BundlesDone
    /\ \E c \in 1..Len(Captions) :
          /\ closest[c] # 0
          /\ \E k \in 1..Len(Images) :
                /\ Images[k].page_number # Captions[c].page_number
                /\ HasGeometry(Images[k])
                /\ CenterDistance(Captions[c], Images[k])
                       < CenterDistance(Captions[c], Images[closest[c]])

\* The images of the caption's page that have a bounding box.
SamePageCandidates(caption) ==
    { k \in 1..Len(Images) :
        /\ Images[k].page_number = caption.page_number
        /\ HasGeometry(Images[k]) }

\* C10 (as claimed): among the images of the caption's page find_closest_image
\* returns one whose center is at minimum distance from the caption's center,
\* the first such in input order.
C10_NearestNeighbor ==
    BundlesDone =>
        \A c \in 1..Len(Captions) :
            (HasGeometry(Captions[c]) /\ SamePageCandidates(Captions[c]) # {}) =>
                /\ closest[c] \in SamePageCandidates(Captions[c])
                /\ \A k \in SamePageCandidates(Captions[c]) :
                      /\ CenterDistance(Captions[c], Images[closest[c]])
                             <= CenterDistance(Captions[c], Images[k])
                      /\ CenterDistance(Captions[c], Images[closest[c]])
                             = CenterDistance(Captions[c], Images[k])
                           => closest[c] <= k

\* C11 (as claimed): find_closest_image returns None only when no image
\* shares the caption's page or the caption has no valid bounding box: with
\* a non-empty caption polygon and a same-page image with a non-empty
\* polygon an image is returned, for polygons given as lists or as tuples.
C11_NoneOnlyWithoutCandidates ==
    BundlesDone =>
        \A c \in 1..Len(Captions) :
            (HasGeometry(Captions[c]) /\ SamePageCandidates(Captions[c]) # {})
                => closest[c] # 0

\* ------------------------------------------------- claims on the categorizer
CategorizeDone == op = "categorize" /\ pc = "done"

\* An element of the stream is retained when the page filter keeps it.
Retained(idx) ==
    ~(pages_to_be_extracted > 0
        /\ raw_pdf_elements[idx].page_number > pages_to_be_extracted)

StreamIndices == [j \in 1..Len(raw_pdf_elements) |-> j]

RetainedTables ==
    SelectSeq(StreamIndices,
              LAMBDA j : Retained(j) /\ raw_pdf_elements[j].category = "Table")

RetainedTexts ==
    SelectSeq(StreamIndices,
              LAMBDA j : Retained(j) /\ IsTextLike(raw_pdf_elements[j].category))

PrecededByText(idx) ==
    idx > 1 /\ IsTextLike(raw_pdf_elements[idx - 1].category)

\* C12 (as claimed): a retained Table whose preceding element is text-like
\* gets that text and a blank-line separator prepended exactly when the text
\* has fewer than 200 characters; otherwise the markup is output unmodified.
C12_PrependedIffShorterThan200 ==
    CategorizeDone =>
        /\ Len(tables) = Len(RetainedTables)
        /\ \A k \in 1..Len(tables) :
              LET idx == RetainedTables[k]
                  html == raw_pdf_elements[idx].text_as_html
              IN  tables[k] =
                      IF PrecededByText(idx)
                         /\ StrLen(raw_pdf_elements[idx - 1].text) < 200
                      THEN << raw_pdf_elements[idx - 1].text, "\n\n", html >>
                      ELSE << html >>

\* C12 (amended): a retained Table whose preceding element of the stream is
\* text-like gets that text and a blank-line separator prepended exactly when
\* the text is non-empty and has fewer than 200 characters (199: prepended,
\* 200: not, 0: not); in every other case the markup is output unmodified.
C12_PrependedIffNonEmptyAndShorterThan200 ==
    CategorizeDone =>
        /\ Len(tables) = Len(RetainedTables)
        /\ \A k \in 1..Len(tables) :
              LET idx == RetainedTables[k]
                  html == raw_pdf_elements[idx].text_as_html
              IN  tables[k] =
                      IF PrecededByText(idx)
                         /\ raw_pdf_elements[idx - 1].text # ""
                         /\ StrLen(raw_pdf_elements[idx - 1].text) < 200
                      THEN << raw_pdf_elements[idx - 1].text, "\n\n", html >>
                      ELSE << html >>

\* A 199-character text was prepended to one table and another table of the
\* same run came out unmodified.
C12_Witness ==
    /\ CategorizeDone
    /\ \E k \in 1..Len(tables) : tables[k][1] = "t199" /\ Len(tables[k]) = 3
    /\ \E k \in 1..Len(tables) : Len(tables[k]) = 1

\* C13: with max_page > 0 no element beyond max_page contributes to texts or
\* tables; with max_page <= 0 nothing is skipped for its page; the retained
\* text-like elements are texts and the retained tables are tables, in stream
\* order and without deduplication.
C13_PageFilterAndOrder ==
    CategorizeDone =>
        /\ texts = [k \in 1..Len(RetainedTexts) |->
                        raw_pdf_elements[RetainedTexts[k]].text]
        /\ Len(tables) = Len(RetainedTables)
        /\ \A k \in 1..Len(tables) :
              tables[k][Len(tables[k])] =
                  raw_pdf_elements[RetainedTables[k]].text_as_html

\* A page-2 element was dropped under max_page = 1 and two retained elements
\* with the same text both appear in texts.
C13_Witness ==
    /\ CategorizeDone
    /\ pages_to_be_extracted = 1
    /\ \E j \in 1..Len(raw_pdf_elements) : raw_pdf_elements[j].page_number = 2
    /\ Len(texts) = 2
    /\ texts[1] = texts[2]

\* C17 (as claimed): the context prepended to a table always comes from a
\* retained element: the element at index - 1 of the stream is used as table
\* context only if the page filter kept it.
C17_ContextFromRetainedElement ==
    CategorizeDone =>
        \A k \in 1..Len(tables) :
            Len(tables[k]) = 3 => Retained(RetainedTables[k] - 1)
\* ----------------------------------------- further claims on the summarizers
FailureCounter(cls) ==
    IF cls = "text" THEN text_exception_counter
    ELSE IF cls = "table" THEN table_exception_counter
    ELSE image_exception_counter

\* C15 (as claimed): at the end of each batch the failure counter equals the
\* number of output slots of that batch that hold a failure sentinel; a real
\* summary never increments it, whatever text it contains.
C15_CounterCountsSentinels ==
    \A cls \in Classes :
        BatchOver(cls) =>
            FailureCounter(cls) =
                Cardinality({j \in 1..Len(Items(cls)) : Failed(cls, j)})

\* C16 (as claimed): a rate-limit failure that brings the attempt counter to
\* max_attempts ends the call without sleeping, so a call makes at most
\* max_attempts - 1 sleeps.
C16_NoSleepBeforeGivingUp ==
    Len(sleeps) <= max_retries - 1
\* ------------------------------------------- further claims on image bundles
\* The keys built by the base64-encoding stage and by the bundle stage.
EncodedKeys == { image_base64_dict[k][1] : k \in 1..Len(image_base64_dict) }
BundleKeys == { caption_image_dict[k].image_key : k \in 1..Len(caption_image_dict) }

SameGeometry(x, y) ==
    x.page_number = y.page_number /\ Points(x.coords.box) = Points(y.coords.box)

\* C14: two elements on the same page with geometrically identical bounding
\* boxes, one given as a list of lists and the other as a tuple of tuples,
\* produce equal keys, and the key the base64-encoding stage builds for an
\* image equals the key the bundle stage builds for the same image.
C14_KeyCanonicalization ==
    BundlesDone =>
        /\ \A x, y \in EncodedKeys \cup BundleKeys :
              (x[1] = y[1] /\ Points(x[2].box) = Points(y[2].box)) => x = y
        /\ EncodedKeys \subseteq BundleKeys
        /\ \A k \in 1..Len(Images) :
              Images[k].has_file =>
                  \E b \in 1..Len(caption_image_dict) :
                      /\ caption_image_dict[b].image_key \in EncodedKeys
                      /\ caption_image_dict[b].page_number = Images[k].page_number
                      /\ Points(caption_image_dict[b].image_key[2].box) =
                             Points(Images[k].coords.box)
                      /\ caption_image_dict[b].base64_data # ""

\* A list-form image and a tuple-form image with the same page and box share
\* one payload entry and one bundle, which a caption claimed.
C14_Witness ==
    /\ BundlesDone
    /\ \E a, b \in 1..Len(Images) :
          /\ Images[a].coords.container = "list"
          /\ Images[b].coords.container = "tuple"
          /\ SameGeometry(Images[a], Images[b])
          /\ Images[a].has_file
          /\ Images[b].has_file
    /\ Len(image_base64_dict) = 1
    /\ Len(caption_image_dict) = 1
    /\ caption_image_dict[1].caption_text # ""

\* C18: every bundle with a non-empty payload has a key present in
\* image_base64_dict and carries exactly the payload mapped to it; a caption
\* whose matched image's key is absent from image_base64_dict produces no
\* captioned bundle, and that image is an orphan bundle with empty caption
\* text and empty payload.
C18_PayloadsComeFromTheDict ==
    BundlesDone =>
        /\ \A b \in 1..Len(caption_image_dict) :
              caption_image_dict[b].base64_data # "" =>
                  /\ DictHas(image_base64_dict, caption_image_dict[b].image_key)
                  /\ caption_image_dict[b].base64_data =
                         DictGet(image_base64_dict,
                                 caption_image_dict[b].image_key, "")
        /\ \A c \in 1..Len(Captions) :
              (closest[c] # 0
                 /\ ~DictHas(image_base64_dict, GeometryKey(Images[closest[c]])))
              => /\ \A b \in 1..Len(caption_image_dict) :
                        caption_image_dict[b].caption_text # Captions[c].text
                 /\ \E b \in BundlesOf(Images[closest[c]]) :
                        /\ caption_image_dict[b].caption_text = ""
                        /\ caption_image_dict[b].base64_data = ""

\* A caption was matched to an image without payload, which came out as an
\* orphan, next to a bundle that does carry a payload.
C18_Witness ==
    /\ BundlesDone
    /\ \E c \in 1..Len(Captions) :
          /\ closest[c] # 0
          /\ ~DictHas(image_base64_dict, GeometryKey(Images[closest[c]]))
    /\ \E b \in 1..Len(caption_image_dict) :
          caption_image_dict[b].base64_data # ""
=============================================================================
